---- MODULE Spec2Model ----
(***************************************************************************)
(* Community ID (corelight/c-community-id): communityid_calc() and its     *)
(* helper communityid_tuple_lt(), src/communityid.c, together with the     *)
(* library routines it calls (GLib byte-order macros, memcmp, libgcrypt's  *)
(* SHA-1, g_base64_encode, "%02x").                                        *)
(*                                                                         *)
(* Conventions.  A C pointer is a sequence: <<>> is NULL, <<v>> points at  *)
(* v, an address buffer is the sequence of its bytes.  A guint16 is the    *)
(* integer the host reads from the two bytes in memory, so a port "in      *)
(* network byte order" is g_htons(n) on the modelled host.  A C string is  *)
(* the sequence of its characters.  A 32-bit word of SHA-1 is <<hi, lo>>,  *)
(* two 16-bit halves.                                                      *)
(***************************************************************************)
EXTENDS Integers, Sequences, FiniteSets, TLC

NULL == <<>>

\* ---- Protocol and ICMP type numbers ------------------------------------
CID_PROTO_ICMP == 1
CID_PROTO_TCP == 6
CID_PROTO_ICMPV6 == 58

CID_ICMP_ECHO_REPLY == 0
CID_ICMP_ECHO == 8
CID_ICMP_RTR_ADVERT == 9
CID_ICMP_RTR_SOLICIT == 10
CID_ICMP_TSTAMP == 13
CID_ICMP_TSTAMP_REPLY == 14
CID_ICMP_INFO == 15
CID_ICMP_INFO_REPLY == 16
CID_ICMP_MASK == 17
CID_ICMP_MASK_REPLY == 18

CID_ICMPV6_ECHO_REQUEST == 128
CID_ICMPV6_ECHO_REPLY == 129
CID_ICMPV6_MLD_LISTENER_QUERY == 130
CID_ICMPV6_MLD_LISTENER_REPORT == 131
CID_ICMPV6_ND_ROUTER_SOLICIT == 133
CID_ICMPV6_ND_ROUTER_ADVERT == 134
CID_ICMPV6_ND_NEIGHBOR_SOLICIT == 135
CID_ICMPV6_ND_NEIGHBOR_ADVERT == 136
CID_ICMPV6_WRU_REQUEST == 139
CID_ICMPV6_WRU_REPLY == 140
CID_ICMPV6_HAAD_REQUEST == 144
CID_ICMPV6_HAAD_REPLY == 145

CID_VERSION_PREFIX == <<"1", ":">>

\* ---- Bounds of the model ------------------------------------------------
\* Seeds 0..MaxSeed; the first NumPorts port numbers of PortPool.
MaxSeed == 1
NumPorts == 4
PortPool == <<80, 34855, 8, 0, 256, 128, 129, 3>>
PortNumbers == {PortPool[i] : i \in 1..NumPorts}

\* ---- Host byte order (GLib macros) and memory layout --------------------
\* be = TRUE on a big-endian host, FALSE on a little-endian one.
GUINT16_SWAP_LE_BE(v) == ((v % 256) * 256) + (v \div 256)
GUINT16_FROM_BE(be, v) == IF be THEN v ELSE GUINT16_SWAP_LE_BE(v)
GUINT16_TO_BE(be, v) == IF be THEN v ELSE GUINT16_SWAP_LE_BE(v)
g_htons(be, n) == GUINT16_TO_BE(be, n)
\* The two bytes at the address of a guint16 holding v, lowest address first.
Bytes16(be, v) == IF be THEN <<v \div 256, v % 256>> ELSE <<v % 256, v \div 256>>

\* memcmp over the first n bytes: bytes compare as unsigned char.
memcmp(s1, s2, n) ==
    IF \A i \in 1..n : s1[i] = s2[i] THEN 0
    ELSE LET k == CHOOSE i \in 1..n : s1[i] # s2[i] /\ \A j \in 1..(i - 1) : s1[j] = s2[j]
         IN IF s1[k] < s2[k] THEN -1 ELSE 1

\* ---- SHA-1 (libgcrypt, GCRY_MD_SHA1) ------------------------------------
Pow2(n) == 2^n
Bit(a, i) == (a \div Pow2(i)) % 2
And4 == [a \in 0..15 |-> [b \in 0..15 |->
          (Bit(a, 0) * Bit(b, 0)) + (2 * Bit(a, 1) * Bit(b, 1))
          + (4 * Bit(a, 2) * Bit(b, 2)) + (8 * Bit(a, 3) * Bit(b, 3))]]
And8 == [a \in 0..255 |-> [b \in 0..255 |->
          (16 * And4[a \div 16][b \div 16]) + And4[a % 16][b % 16]]]
And16(a, b) == (256 * And8[a \div 256][b \div 256]) + And8[a % 256][b % 256]
Xor16(a, b) == a + b - (2 * And16(a, b))
Or16(a, b) == a + b - And16(a, b)
Not16(a) == 65535 - a

WAnd(x, y) == <<And16(x[1], y[1]), And16(x[2], y[2])>>
WXor(x, y) == <<Xor16(x[1], y[1]), Xor16(x[2], y[2])>>
WOr(x, y) == <<Or16(x[1], y[1]), Or16(x[2], y[2])>>
WNot(x) == <<Not16(x[1]), Not16(x[2])>>
WAdd(x, y) ==
    LET lo == x[2] + y[2]
    IN <<(x[1] + y[1] + (lo \div 65536)) % 65536, lo % 65536>>
\* rotate left by n bits, 0 < n < 32
RotlSmall(x, n) ==
    <<((x[1] * Pow2(n)) % 65536) + (x[2] \div Pow2(16 - n)),
      ((x[2] * Pow2(n)) % 65536) + (x[1] \div Pow2(16 - n))>>
Rotl(x, n) == IF n < 16 THEN RotlSmall(x, n) ELSE RotlSmall(<<x[2], x[1]>>, n - 16)

\* 67452301 EFCDAB89 98BADCFE 10325476 C3D2E1F0
SHA1_H0 == << <<26437, 8961>>, <<61389, 43913>>, <<39098, 56574>>,
              <<4146, 21622>>, <<50130, 57840>> >>
\* 5A827999 6ED9EBA1 8F1BBCDC CA62C1D6
SHA1_K(t) ==
    IF t < 20 THEN <<23170, 31129>>
    ELSE IF t < 40 THEN <<28377, 60321>>
    ELSE IF t < 60 THEN <<36635, 48348>>
    ELSE <<51810, 49622>>
SHA1_F(t, b, c, d) ==
    IF t < 20 THEN WOr(WAnd(b, c), WAnd(WNot(b), d))
    ELSE IF t < 40 THEN WXor(WXor(b, c), d)
    ELSE IF t < 60 THEN WOr(WOr(WAnd(b, c), WAnd(b, d)), WAnd(c, d))
    ELSE WXor(WXor(b, c), d)

\* The message, 0x80, zeros, and the bit length as 8 bytes big-endian.
SHA1_Pad(msg) ==
    LET l == Len(msg)
        bits == 8 * l
    IN msg \o <<128>> \o [i \in 1..((119 - l) % 64) |-> 0]
           \o <<0, 0, 0, 0, 0, (bits \div 65536) % 256, (bits \div 256) % 256, bits % 256>>

SHA1_NextW(w) ==
    LET n == Len(w)
    IN Rotl(WXor(WXor(w[n - 2], w[n - 7]), WXor(w[n - 13], w[n - 15])), 1)
\* The message schedule, extended to n words.
RECURSIVE SHA1_Schedule(_, _)
SHA1_Schedule(w, n) ==
    IF Len(w) >= n THEN w
    ELSE IF n - Len(w) = 1 THEN Append(w, SHA1_NextW(w))
    ELSE SHA1_Schedule(SHA1_Schedule(w, (Len(w) + n) \div 2), n)

\* One round; s.t is the round number, s.v the working variables a..e.
SHA1_Round(w, s) ==
    [t |-> s.t + 1,
     v |-> <<WAdd(WAdd(WAdd(Rotl(s.v[1], 5), SHA1_F(s.t, s.v[2], s.v[3], s.v[4])),
                       WAdd(s.v[5], SHA1_K(s.t))), w[s.t + 1]),
             s.v[1], Rotl(s.v[2], 30), s.v[3], s.v[4]>>]
\* Rounds s.t .. n-1.
RECURSIVE SHA1_Rounds(_, _, _)
SHA1_Rounds(w, s, n) ==
    IF s.t >= n THEN s
    ELSE IF n - s.t = 1 THEN SHA1_Round(w, s)
    ELSE SHA1_Rounds(w, SHA1_Rounds(w, s, (s.t + n) \div 2), n)

SHA1_Block(hin, blk) ==
    LET words == [i \in 1..16 |-> <<(256 * blk[(4 * i) - 3]) + blk[(4 * i) - 2],
                                    (256 * blk[(4 * i) - 1]) + blk[4 * i]>>]
        fin == SHA1_Rounds(SHA1_Schedule(words, 80), [t |-> 0, v |-> hin], 80).v
    IN [i \in 1..5 |-> WAdd(hin[i], fin[i])]

RECURSIVE SHA1_Blocks(_, _)
SHA1_Blocks(hin, m) ==
    IF Len(m) = 0 THEN hin
    ELSE SHA1_Blocks(SHA1_Block(hin, SubSeq(m, 1, 64)), SubSeq(m, 65, Len(m)))

\* The 20 digest bytes of the byte sequence msg.
SHA1(msg) ==
    LET hout == SHA1_Blocks(SHA1_H0, SHA1_Pad(msg))
    IN [i \in 1..20 |->
          LET half == hout[((i - 1) \div 4) + 1][(((i - 1) % 4) \div 2) + 1]
          IN IF i % 2 = 1 THEN half \div 256 ELSE half % 256]

\* ---- Text encodings (g_base64_encode, g_snprintf "%02x") ----------------
Base64Alphabet ==
    <<"A", "B", "C", "D", "E", "F", "G", "H", "I", "J", "K", "L", "M",
      "N", "O", "P", "Q", "R", "S", "T", "U", "V", "W", "X", "Y", "Z",
      "a", "b", "c", "d", "e", "f", "g", "h", "i", "j", "k", "l", "m",
      "n", "o", "p", "q", "r", "s", "t", "u", "v", "w", "x", "y", "z",
      "0", "1", "2", "3", "4", "5", "6", "7", "8", "9", "+", "/">>
B64(i) == Base64Alphabet[i + 1]

\* Standard base64 with '=' padding, no line breaks.
RECURSIVE g_base64_encode(_)
g_base64_encode(data) ==
    IF Len(data) = 0 THEN <<>>
    ELSE IF Len(data) = 1
    THEN <<B64(data[1] \div 4), B64((data[1] % 4) * 16), "=", "=">>
    ELSE IF Len(data) = 2
    THEN <<B64(data[1] \div 4), B64(((data[1] % 4) * 16) + (data[2] \div 16)),
           B64((data[2] % 16) * 4), "=">>
    ELSE <<B64(data[1] \div 4), B64(((data[1] % 4) * 16) + (data[2] \div 16)),
           B64(((data[2] % 16) * 4) + (data[3] \div 64)), B64(data[3] % 64)>>
         \o g_base64_encode(SubSeq(data, 4, Len(data)))

HexDigits ==
    <<"0", "1", "2", "3", "4", "5", "6", "7", "8", "9", "a", "b", "c", "d", "e", "f">>
\* Mutant: "%x", no zero padding.
snprintf_02x_nopad(byte) ==
    IF byte < 16 THEN <<HexDigits[byte + 1]>>
    ELSE <<HexDigits[(byte \div 16) + 1], HexDigits[(byte % 16) + 1]>>

\* g_snprintf(ptr, 3, "%02x", byte): two lowercase digits, zero-padded.
snprintf_02x(byte) == <<HexDigits[(byte \div 16) + 1], HexDigits[(byte % 16) + 1]>>

\* The hex branch's loop over sha1_buf, after the prefix has been copied.
RECURSIVE hex_encode(_)
hex_encode(buf) ==
    IF Len(buf) = 0 THEN <<>>
    ELSE snprintf_02x(buf[1]) \o hex_encode(SubSeq(buf, 2, Len(buf)))

\* The string *result is set to.
encode_result(do_base64, sha1_buf) ==
    IF do_base64 THEN CID_VERSION_PREFIX \o g_base64_encode(sha1_buf)
    ELSE CID_VERSION_PREFIX \o hex_encode(sha1_buf)

\* Mutant: the port comparison decides even when the addresses differ.
communityid_tuple_lt_anyaddr(addr_len, saddr_p, daddr_p, sport_p, dport_p) ==
    LET addrcmp == memcmp(saddr_p, daddr_p, addr_len)
        ports_lt == IF sport_p # NULL /\ dport_p # NULL
                    THEN sport_p[1] < dport_p[1] ELSE TRUE
    IN addrcmp < 0 \/ ports_lt

\* ---- communityid_tuple_lt ----------------------------------------------
\* sport, dport are pointers to guint16; the comparison is on the integers
\* the host reads there.
communityid_tuple_lt(addr_len, saddr_p, daddr_p, sport_p, dport_p) ==
    LET addrcmp == memcmp(saddr_p, daddr_p, addr_len)
        ports_lt == IF sport_p # NULL /\ dport_p # NULL
                    THEN sport_p[1] < dport_p[1] ELSE TRUE
    IN addrcmp < 0 \/ (addrcmp = 0 /\ ports_lt)

\* Mutant: only the request types are listed; a reply falls to the default.
icmp_switch_requests_only(sport_final) ==
    CASE sport_final = CID_ICMP_ECHO -> CID_ICMP_ECHO_REPLY
      [] sport_final = CID_ICMP_TSTAMP -> CID_ICMP_TSTAMP_REPLY
      [] sport_final = CID_ICMP_INFO -> CID_ICMP_INFO_REPLY
      [] sport_final = CID_ICMP_RTR_SOLICIT -> CID_ICMP_RTR_ADVERT
      [] sport_final = CID_ICMP_MASK -> CID_ICMP_MASK_REPLY
      [] OTHER -> -1

\* ---- communityid_calc: the ICMP type switches --------------------------
\* The value the switch assigns to dport_final, or -1 in the default case.
icmp_switch(sport_final) ==
    CASE sport_final = CID_ICMP_ECHO -> CID_ICMP_ECHO_REPLY
      [] sport_final = CID_ICMP_ECHO_REPLY -> CID_ICMP_ECHO
      [] sport_final = CID_ICMP_TSTAMP -> CID_ICMP_TSTAMP_REPLY
      [] sport_final = CID_ICMP_TSTAMP_REPLY -> CID_ICMP_TSTAMP
      [] sport_final = CID_ICMP_INFO -> CID_ICMP_INFO_REPLY
      [] sport_final = CID_ICMP_INFO_REPLY -> CID_ICMP_INFO
      [] sport_final = CID_ICMP_RTR_SOLICIT -> CID_ICMP_RTR_ADVERT
      [] sport_final = CID_ICMP_RTR_ADVERT -> CID_ICMP_RTR_SOLICIT
      [] sport_final = CID_ICMP_MASK -> CID_ICMP_MASK_REPLY
      [] sport_final = CID_ICMP_MASK_REPLY -> CID_ICMP_MASK
      [] OTHER -> -1

\* Mutant: only the echo pair is listed for ICMPv6.
icmpv6_switch_echo_only(sport_final) ==
    CASE sport_final = CID_ICMPV6_ECHO_REQUEST -> CID_ICMPV6_ECHO_REPLY
      [] sport_final = CID_ICMPV6_ECHO_REPLY -> CID_ICMPV6_ECHO_REQUEST
      [] OTHER -> -1

icmpv6_switch(sport_final) ==
    CASE sport_final = CID_ICMPV6_ECHO_REQUEST -> CID_ICMPV6_ECHO_REPLY
      [] sport_final = CID_ICMPV6_ECHO_REPLY -> CID_ICMPV6_ECHO_REQUEST
      [] sport_final = CID_ICMPV6_MLD_LISTENER_QUERY -> CID_ICMPV6_MLD_LISTENER_REPORT
      [] sport_final = CID_ICMPV6_MLD_LISTENER_REPORT -> CID_ICMPV6_MLD_LISTENER_QUERY
      [] sport_final = CID_ICMPV6_ND_ROUTER_SOLICIT -> CID_ICMPV6_ND_ROUTER_ADVERT
      [] sport_final = CID_ICMPV6_ND_ROUTER_ADVERT -> CID_ICMPV6_ND_ROUTER_SOLICIT
      [] sport_final = CID_ICMPV6_ND_NEIGHBOR_SOLICIT -> CID_ICMPV6_ND_NEIGHBOR_ADVERT
      [] sport_final = CID_ICMPV6_ND_NEIGHBOR_ADVERT -> CID_ICMPV6_ND_NEIGHBOR_SOLICIT
      [] sport_final = CID_ICMPV6_WRU_REQUEST -> CID_ICMPV6_WRU_REPLY
      [] sport_final = CID_ICMPV6_WRU_REPLY -> CID_ICMPV6_WRU_REQUEST
      [] sport_final = CID_ICMPV6_HAAD_REQUEST -> CID_ICMPV6_HAAD_REPLY
      [] sport_final = CID_ICMPV6_HAAD_REPLY -> CID_ICMPV6_HAAD_REQUEST
      [] OTHER -> -1

\* Mutant: the type switch only decides is_one_way; dport_final keeps the
\* caller's value.
icmp_case_keepcode(be, sw, sport_v, dport_v) ==
    [sport_final |-> GUINT16_TO_BE(be, GUINT16_FROM_BE(be, sport_v)),
     dport_final |-> GUINT16_TO_BE(be, GUINT16_FROM_BE(be, dport_v)),
     is_one_way |-> (sw = -1)]

\* Mutant: the default case does not set is_one_way.
icmp_case_never_one_way(be, sw, sport_v, dport_v) ==
    [sport_final |-> GUINT16_TO_BE(be, GUINT16_FROM_BE(be, sport_v)),
     dport_final |-> GUINT16_TO_BE(be, IF sw = -1 THEN GUINT16_FROM_BE(be, dport_v) ELSE sw),
     is_one_way |-> FALSE]

\* One case of switch (proto): ports from network byte order, the type
\* switch, and back.  sw is the type switch's outcome for the host-order
\* source value.
icmp_case(be, sw, sport_v, dport_v) ==
    LET s_host == GUINT16_FROM_BE(be, sport_v)
        d_host == GUINT16_FROM_BE(be, dport_v)
        d_new == IF sw = -1 THEN d_host ELSE sw
    IN [sport_final |-> GUINT16_TO_BE(be, s_host),
        dport_final |-> GUINT16_TO_BE(be, d_new),
        is_one_way |-> (sw = -1)]

\* The block run when both port pointers are set: sport_final, dport_final
\* and is_one_way as they stand when sport/dport are re-pointed at them.
port_finals(be, proto, sport_v, dport_v) ==
    IF proto = CID_PROTO_ICMP
    THEN icmp_case(be, icmp_switch(GUINT16_FROM_BE(be, sport_v)), sport_v, dport_v)
    ELSE IF proto = CID_PROTO_ICMPV6
    THEN icmp_case(be, icmpv6_switch(GUINT16_FROM_BE(be, sport_v)), sport_v, dport_v)
    ELSE [sport_final |-> sport_v, dport_final |-> dport_v, is_one_way |-> FALSE]

\* ---- communityid_calc ----------------------------------------------------
\* Mutant: a call with exactly one port is rejected as well.
args_ok_strict(a) ==
    /\ a.cfg # NULL
    /\ a.result # NULL
    /\ (a.addr_len = 4 \/ a.addr_len = 16)
    /\ (a.saddr # NULL /\ a.daddr # NULL)
    /\ ((a.sport = NULL) = (a.dport = NULL))

\* Mutant: the address length is not checked.
args_ok_anylen(a) ==
    /\ a.cfg # NULL
    /\ a.result # NULL
    /\ (a.saddr # NULL /\ a.daddr # NULL)

\* The g_return_val_if_fail() checks at the top of the function.
args_ok(a) ==
    /\ a.cfg # NULL
    /\ a.result # NULL
    /\ (a.addr_len = 4 \/ a.addr_len = 16)
    /\ (a.saddr # NULL /\ a.daddr # NULL)

\* From the port block to the end of the flip: the locals is_one_way, saddr,
\* daddr, sport, dport as they stand when the SHA-1 computation starts.
normalize(be, a) ==
    LET both == a.sport # NULL /\ a.dport # NULL
        pf == port_finals(be, a.proto, a.sport[1], a.dport[1])
        one_way == both /\ pf.is_one_way
        sp == IF both THEN <<pf.sport_final>> ELSE a.sport
        dp == IF both THEN <<pf.dport_final>> ELSE a.dport
    IN IF one_way \/ communityid_tuple_lt(a.addr_len, a.saddr, a.daddr, sp, dp)
       THEN [is_one_way |-> one_way, saddr |-> a.saddr, daddr |-> a.daddr,
             sport |-> sp, dport |-> dp]
       ELSE [is_one_way |-> one_way, saddr |-> a.daddr, daddr |-> a.saddr,
             sport |-> IF sp # NULL /\ dp # NULL THEN dp ELSE sp,
             dport |-> IF sp # NULL /\ dp # NULL THEN sp ELSE dp]

\* Mutant: the seed is written in host byte order.
md_write_all_hostseed(be, cfg_seed, proto, addr_len, n) ==
    Bytes16(be, cfg_seed)
    \o SubSeq(n.saddr, 1, addr_len)
    \o SubSeq(n.daddr, 1, addr_len)
    \o <<proto>>
    \o <<0>>
    \o (IF n.sport # NULL /\ n.dport # NULL
        THEN Bytes16(be, n.sport[1]) \o Bytes16(be, n.dport[1])
        ELSE <<>>)

\* Mutant: the padding byte is not written.
md_write_all_nopad(be, cfg_seed, proto, addr_len, n) ==
    Bytes16(be, GUINT16_TO_BE(be, cfg_seed))
    \o SubSeq(n.saddr, 1, addr_len)
    \o SubSeq(n.daddr, 1, addr_len)
    \o <<proto>>
    \o (IF n.sport # NULL /\ n.dport # NULL
        THEN Bytes16(be, n.sport[1]) \o Bytes16(be, n.dport[1])
        ELSE <<>>)

\* The bytes handed to gcry_md_write, in order.
md_write_all(be, cfg_seed, proto, addr_len, n) ==
    LET seed_final == GUINT16_TO_BE(be, cfg_seed)
        padding == 0
    IN Bytes16(be, seed_final)
       \o SubSeq(n.saddr, 1, addr_len)
       \o SubSeq(n.daddr, 1, addr_len)
       \o <<proto>>
       \o <<padding>>
       \o (IF n.sport # NULL /\ n.dport # NULL
           THEN Bytes16(be, n.sport[1]) \o Bytes16(be, n.dport[1])
           ELSE <<>>)

\* The whole function.  gcry_err: gcry_md_open returns an error.  cid0 is
\* the caller's string pointer that a.result points at.  The record holds
\* the return value, the caller's string pointer afterwards and the locals
\* at the return.
communityid_calc(be, gcry_err, a, cid0) ==
    IF ~args_ok(a)
    THEN [ret |-> FALSE, cid |-> cid0, is_one_way |-> FALSE,
          saddr |-> a.saddr, daddr |-> a.daddr, sport |-> a.sport, dport |-> a.dport,
          md_open |-> FALSE, md |-> <<>>, sha1_buf |-> NULL]
    ELSE LET n == normalize(be, a)
         IN IF gcry_err
            THEN [ret |-> FALSE, cid |-> cid0, is_one_way |-> n.is_one_way,
                  saddr |-> n.saddr, daddr |-> n.daddr, sport |-> n.sport, dport |-> n.dport,
                  md_open |-> FALSE, md |-> <<>>, sha1_buf |-> NULL]
            ELSE LET stream == md_write_all(be, a.cfg[1].cfg_seed, a.proto, a.addr_len, n)
                     digest == SHA1(stream)
                 IN [ret |-> TRUE, cid |-> encode_result(a.cfg[1].cfg_do_base64, digest),
                     is_one_way |-> n.is_one_way,
                     saddr |-> n.saddr, daddr |-> n.daddr, sport |-> n.sport, dport |-> n.dport,
                     md_open |-> TRUE, md |-> stream, sha1_buf |-> digest]

\* ---- The calls explored ---------------------------------------------------
IPv4Addrs == {<<66, 35, 250, 204>>, <<128, 232, 110, 120>>}
IPv6Addrs == {<<32, 1, 13, 184, 0, 0, 0, 0, 0, 0, 0, 0, 0, 0, 0, 1>>,
              <<254, 128, 0, 0, 0, 0, 0, 0, 2, 0, 134, 255, 254, 5, 128, 218>>}
Protos == {CID_PROTO_ICMP, CID_PROTO_TCP, CID_PROTO_ICMPV6}
AddrLens == {4, 5, 16}
Cfgs == {NULL} \cup {<<c>> : c \in [cfg_do_base64 : BOOLEAN, cfg_seed : 0..MaxSeed]}
PortPtrs(be) == {NULL} \cup {<<g_htons(be, p)>> : p \in PortNumbers}
\* The caller's address buffers for a given addr_len.
Buffers(addr_len) == IF addr_len = 4 THEN IPv4Addrs ELSE IPv6Addrs
Args(be) ==
    {a \in [cfg : Cfgs, proto : Protos, addr_len : AddrLens,
            saddr : {NULL} \cup IPv4Addrs \cup IPv6Addrs,
            daddr : {NULL} \cup IPv4Addrs \cup IPv6Addrs,
            sport : PortPtrs(be), dport : PortPtrs(be),
            result : {NULL, <<"cid">>}] :
        /\ a.saddr \in {NULL} \cup Buffers(a.addr_len)
        /\ a.daddr \in {NULL} \cup Buffers(a.addr_len)}

\* The ICMP calls explored: every type of the two switches and some types
\* of neither, with the first NumCodes values of CodePool in the code slot.
NumCodes == 2
CodePool == <<0, 80, 8, 129, 3>>
IcmpCodes == {CodePool[i] : i \in 1..NumCodes}
IcmpTypes ==
    {CID_ICMP_ECHO_REPLY, CID_ICMP_ECHO, CID_ICMP_RTR_ADVERT, CID_ICMP_RTR_SOLICIT,
     CID_ICMP_TSTAMP, CID_ICMP_TSTAMP_REPLY, CID_ICMP_INFO, CID_ICMP_INFO_REPLY,
     CID_ICMP_MASK, CID_ICMP_MASK_REPLY,
     CID_ICMPV6_ECHO_REQUEST, CID_ICMPV6_ECHO_REPLY, CID_ICMPV6_MLD_LISTENER_QUERY,
     CID_ICMPV6_MLD_LISTENER_REPORT, CID_ICMPV6_ND_ROUTER_SOLICIT,
     CID_ICMPV6_ND_ROUTER_ADVERT, CID_ICMPV6_ND_NEIGHBOR_SOLICIT,
     CID_ICMPV6_ND_NEIGHBOR_ADVERT, CID_ICMPV6_WRU_REQUEST, CID_ICMPV6_WRU_REPLY,
     CID_ICMPV6_HAAD_REQUEST, CID_ICMPV6_HAAD_REPLY}
    \cup {1, 3, 264}
IcmpCfgs == {<<[cfg_do_base64 |-> TRUE, cfg_seed |-> 0]>>,
             <<[cfg_do_base64 |-> FALSE, cfg_seed |-> MaxSeed]>>}
IcmpArgs(be) ==
    {a \in [cfg : IcmpCfgs, proto : {CID_PROTO_ICMP, CID_PROTO_ICMPV6},
            addr_len : {4, 16},
            saddr : IPv4Addrs \cup IPv6Addrs, daddr : IPv4Addrs \cup IPv6Addrs,
            sport : {<<g_htons(be, t)>> : t \in IcmpTypes},
            dport : {<<g_htons(be, c)>> : c \in IcmpCodes},
            result : {<<"cid">>}] :
        a.saddr \in Buffers(a.addr_len) /\ a.daddr \in Buffers(a.addr_len)}

VARIABLES
    be,          \* the host is big-endian
    args,        \* the arguments of the call
    pc,          \* "call" before the call, "done" after it returned
    gcry_err,    \* gcry_md_open failed in this call
    cid,         \* the caller's string pointer (what args.result points to)
    ret,         \* the return value
    is_one_way, saddr, daddr, sport, dport,   \* the locals at the return
    md_open,     \* a SHA-1 handle was opened
    md,          \* the bytes written to the SHA-1 handle
    sha1_buf     \* the digest read back, or NULL

vars == <<be, args, pc, gcry_err, cid, ret, is_one_way, saddr, daddr, sport, dport,
          md_open, md, sha1_buf>>

Init ==
    /\ be \in BOOLEAN
    /\ args \in Args(be)
    /\ pc = "call"
    /\ gcry_err = FALSE
    /\ cid = NULL
    /\ ret = FALSE
    /\ is_one_way = FALSE
    /\ saddr = args.saddr
    /\ daddr = args.daddr
    /\ sport = args.sport
    /\ dport = args.dport
    /\ md_open = FALSE
    /\ md = <<>>
    /\ sha1_buf = NULL

InitIcmp ==
    /\ be \in BOOLEAN
    /\ args \in IcmpArgs(be)
    /\ pc = "call"
    /\ gcry_err = FALSE
    /\ cid = NULL
    /\ ret = FALSE
    /\ is_one_way = FALSE
    /\ saddr = args.saddr
    /\ daddr = args.daddr
    /\ sport = args.sport
    /\ dport = args.dport
    /\ md_open = FALSE
    /\ md = <<>>
    /\ sha1_buf = NULL

Call ==
    /\ pc = "call"
    /\ \E err \in BOOLEAN :
          \E r \in {communityid_calc(be, err, args, cid)} :
             /\ gcry_err' = err
             /\ cid' = r.cid
             /\ ret' = r.ret
             /\ is_one_way' = r.is_one_way
             /\ saddr' = r.saddr
             /\ daddr' = r.daddr
             /\ sport' = r.sport
             /\ dport' = r.dport
             /\ md_open' = r.md_open
             /\ md' = r.md
             /\ sha1_buf' = r.sha1_buf
    /\ pc' = "done"
    /\ UNCHANGED <<be, args>>

Next == Call

Spec == Init /\ [][Next]_vars

\* The ICMP and ICMPv6 calls alone.
SpecIcmp == InitIcmp /\ [][Next]_vars

\* ==== Properties ============================================================
\* The call has returned.
Done == pc = "done"
\* Both ports supplied / neither port supplied, by the caller.
BothPorts == args.sport # NULL /\ args.dport # NULL
NoPorts == args.sport = NULL /\ args.dport = NULL
\* The arguments other than the ports are usable.
ValidArgs ==
    /\ args.cfg # NULL /\ args.result # NULL
    /\ args.addr_len \in {4, 16}
    /\ args.saddr # NULL /\ args.daddr # NULL
\* The call made from the other end of the flow.
Reverse(a) ==
    [a EXCEPT !.saddr = a.daddr, !.daddr = a.saddr, !.sport = a.dport, !.dport = a.sport]
\* The port number that a guint16 in network byte order encodes, and its
\* two bytes on the wire.
PortNumber(v) == GUINT16_FROM_BE(be, v)
WireBytes(n) == <<n \div 256, n % 256>>

\* C1: for a protocol other than ICMP and ICMPv6, valid arguments and ports
\* both present or both absent, the call succeeds, the call with source and
\* destination exchanged succeeds too, and both return the same identifier.
C1_DirectionSymmetry ==
    (Done /\ ~gcry_err /\ ValidArgs /\ (BothPorts \/ NoPorts)
          /\ args.proto \notin {CID_PROTO_ICMP, CID_PROTO_ICMPV6})
    => /\ ret = TRUE
       /\ LET r == communityid_calc(be, FALSE, Reverse(args), NULL)
          IN r.ret = TRUE /\ r.cid = cid

\* A TCP call between two different addresses with ports, that was flipped.
C1_Witness ==
    /\ Done /\ ret = TRUE /\ BothPorts
    /\ args.proto = CID_PROTO_TCP
    /\ args.saddr # args.daddr /\ args.sport # args.dport
    /\ saddr = args.daddr /\ daddr = args.saddr

\* Exactly one of the two ports supplied.
OnePort == (args.sport = NULL) # (args.dport = NULL)

C5_InvalidInputNoOutput ==
    Done => /\ (~ValidArgs => (ret = FALSE /\ ~md_open /\ md = <<>> /\ sha1_buf = NULL))
            /\ (gcry_err => ret = FALSE)
            /\ (ret = FALSE => cid = NULL)

\* A call with addr_len 5 and every pointer set has returned FALSE.
C5_Witness ==
    /\ Done /\ ret = FALSE /\ args.addr_len = 5
    /\ args.cfg # NULL /\ args.result # NULL /\ args.saddr # NULL /\ args.daddr # NULL

\* C6: on success the bytes hashed are the seed (2 bytes, big-endian), the
\* canonical source and destination address (addr_len bytes each), the
\* protocol, a zero byte, and, only if both ports were supplied, the
\* canonical source and destination port (2 bytes each, as on the wire).
C6_DigestLayout ==
    (Done /\ ret = TRUE)
    => LET L == args.addr_len
       IN /\ <<saddr, daddr>> \in {<<args.saddr, args.daddr>>, <<args.daddr, args.saddr>>}
          /\ SubSeq(md, 1, 2) = WireBytes(args.cfg[1].cfg_seed)
          /\ SubSeq(md, 3, 2 + L) = saddr
          /\ SubSeq(md, 3 + L, 2 + (2 * L)) = daddr
          /\ md[3 + (2 * L)] = args.proto
          /\ md[4 + (2 * L)] = 0
          /\ IF BothPorts
             THEN /\ Len(md) = (2 * L) + 8
                  /\ SubSeq(md, 5 + (2 * L), 6 + (2 * L)) = WireBytes(PortNumber(sport[1]))
                  /\ SubSeq(md, 7 + (2 * L), 8 + (2 * L)) = WireBytes(PortNumber(dport[1]))
             ELSE Len(md) = (2 * L) + 4

\* A successful IPv6 call with seed 1 and both ports: 40 bytes hashed.
C6_Witness ==
    /\ Done /\ ret = TRUE /\ args.cfg[1].cfg_seed = 1
    /\ BothPorts /\ args.addr_len = 16 /\ Len(md) = 40

\* Decoders of the two text encodings.
LowerHex ==
    <<"0", "1", "2", "3", "4", "5", "6", "7", "8", "9", "a", "b", "c", "d", "e", "f">>
IsLowerHex(c) == \E i \in 1..16 : LowerHex[i] = c
HexValue(c) == (CHOOSE i \in 1..16 : LowerHex[i] = c) - 1
HexDecode(body) ==
    [i \in 1..(Len(body) \div 2) |->
        (16 * HexValue(body[(2 * i) - 1])) + HexValue(body[2 * i])]
IsBase64Char(c) == \E i \in 1..64 : Base64Alphabet[i] = c
Base64Value(c) == (CHOOSE i \in 1..64 : Base64Alphabet[i] = c) - 1
WellFormedBase64(body) ==
    /\ Len(body) % 4 = 0
    /\ \A i \in 1..Len(body) :
          IF body[i] = "="
          THEN i >= Len(body) - 1 /\ body[Len(body)] = "="
          ELSE IsBase64Char(body[i])
RECURSIVE Base64Decode(_)
Base64Decode(body) ==
    IF Len(body) = 0 THEN <<>>
    ELSE LET v1 == Base64Value(body[1])
             v2 == Base64Value(body[2])
             b1 == (v1 * 4) + (v2 \div 16)
         IN IF body[3] = "=" THEN <<b1>>
            ELSE LET v3 == Base64Value(body[3])
                     b2 == ((v2 % 16) * 16) + (v3 \div 4)
                 IN IF body[4] = "=" THEN <<b1, b2>>
                    ELSE <<b1, b2, ((v3 % 4) * 64) + Base64Value(body[4])>>
                         \o Base64Decode(SubSeq(body, 5, Len(body)))

\* C7: every identifier returned starts with "1:"; in hex mode the rest is
\* exactly 40 lowercase hex digits, in base64 mode it is padded base64, and
\* either way it decodes to the 20 digest bytes.
C7_OutputShape ==
    (Done /\ ret = TRUE)
    => /\ Len(sha1_buf) = 20
       /\ Len(cid) > 2
       /\ SubSeq(cid, 1, 2) = <<"1", ":">>
       /\ LET body == SubSeq(cid, 3, Len(cid))
          IN IF args.cfg[1].cfg_do_base64
             THEN /\ WellFormedBase64(body)
                  /\ Base64Decode(body) = sha1_buf
             ELSE /\ Len(body) = 40
                  /\ \A i \in 1..40 : IsLowerHex(body[i])
                  /\ HexDecode(body) = sha1_buf

\* A hex identifier whose digest has a byte below 16 (a leading zero digit).
C7_Witness ==
    /\ Done /\ ret = TRUE /\ ~args.cfg[1].cfg_do_base64
    /\ \E i \in 1..20 : sha1_buf[i] < 16

\* A base64 identifier was returned.
C7_WitnessBase64 ==
    Done /\ ret = TRUE /\ args.cfg[1].cfg_do_base64 /\ Len(cid) = 30

\* The reference call: TCP, 128.232.110.120:34855 -> 66.35.250.204:80,
\* seed 0, base64.
ReferenceArgs ==
    [cfg |-> <<[cfg_do_base64 |-> TRUE, cfg_seed |-> 0]>>,
     proto |-> CID_PROTO_TCP, addr_len |-> 4,
     saddr |-> <<128, 232, 110, 120>>, daddr |-> <<66, 35, 250, 204>>,
     sport |-> <<g_htons(be, 34855)>>, dport |-> <<g_htons(be, 80)>>,
     result |-> <<"cid">>]
ReferenceId ==
    <<"1", ":", "L", "Q", "U", "9", "q", "Z", "l", "K", "+", "B", "5",
      "F", "3", "K", "D", "m", "e", "v", "6", "m", "5", "P", "M", "i", "b",
      "r", "g", "=">>

\* C9: the reference call succeeds with "1:LQU9qZlK+B5F3KDmev6m5PMibrg=",
\* hashing 00 00 | 66.35.250.204 | 128.232.110.120 | 06 | 00 | 80 | 34855.
C9_ReferenceVector ==
    (Done /\ ~gcry_err /\ args = ReferenceArgs)
    => /\ ret = TRUE
       /\ md = <<0, 0, 66, 35, 250, 204, 128, 232, 110, 120, 6, 0, 0, 80, 136, 39>>
       /\ cid = ReferenceId

\* The reference call has returned successfully.
C9_Witness ==
    Done /\ ret = TRUE /\ args = ReferenceArgs

\* Unsigned lexicographic order on two byte sequences of equal length.
LexLess(x, y) ==
    \E k \in 1..Len(x) : x[k] < y[k] /\ \A j \in 1..(k - 1) : x[j] = y[j]

\* C10: on success for a flow that is not one-way, the endpoint hashed as
\* source is the smaller (address, port number) pair: the smaller address,
\* or with equal addresses and ports present the smaller port number.
C10_CanonicalOrder ==
    (Done /\ ret = TRUE /\ ~is_one_way)
    => \/ LexLess(saddr, daddr)
       \/ /\ saddr = daddr
          /\ BothPorts => PortNumber(sport[1]) <= PortNumber(dport[1])

\* The same on a big-endian host, where the integers compared by
\* communityid_tuple_lt are the port numbers.
C10_BigEndianHost == be => C10_CanonicalOrder

\* ---- ICMP and ICMPv6 ------------------------------------------------------
\* The request/reply type pairs of the two protocols.
IcmpPairs == {<<8, 0>>, <<13, 14>>, <<15, 16>>, <<10, 9>>, <<17, 18>>}
Icmpv6Pairs ==
    {<<128, 129>>, <<130, 131>>, <<133, 134>>, <<135, 136>>, <<139, 140>>, <<144, 145>>}
PairsOf(proto) == IF proto = CID_PROTO_ICMP THEN IcmpPairs ELSE Icmpv6Pairs
Paired(proto, t) == \E pr \in PairsOf(proto) : pr[1] = t \/ pr[2] = t
Counterpart(proto, t) ==
    LET pr == CHOOSE q \in PairsOf(proto) : q[1] = t \/ q[2] = t
    IN IF pr[1] = t THEN pr[2] ELSE pr[1]
\* A successful ICMP or ICMPv6 call with both ports; its type and code.
IcmpCall ==
    /\ Done /\ ret = TRUE /\ BothPorts
    /\ args.proto \in {CID_PROTO_ICMP, CID_PROTO_ICMPV6}
IcmpType == PortNumber(args.sport[1])
IcmpCode == PortNumber(args.dport[1])
\* The four port bytes at the end of the digest stream.
HashedPorts == SubSeq(md, (2 * args.addr_len) + 5, (2 * args.addr_len) + 8)

\* C2 as stated: ICMP (A, B, sport = echo request, dport = x) and
\* (B, A, sport = x, dport = echo reply) get the same identifier.
C2_EchoPairingAsWritten ==
    (IcmpCall /\ args.proto = CID_PROTO_ICMP /\ IcmpType = CID_ICMP_ECHO)
    => cid = communityid_calc(be, FALSE,
                 [args EXCEPT !.saddr = args.daddr, !.daddr = args.saddr,
                              !.sport = args.dport,
                              !.dport = <<g_htons(be, CID_ICMP_ECHO_REPLY)>>], NULL).cid

\* C2 amended: ICMP (A, B, sport = echo request, dport = x) and
\* (B, A, sport = echo reply, dport = y) get the same identifier, for all
\* x and y.
C2_EchoPairing ==
    (IcmpCall /\ args.proto = CID_PROTO_ICMP /\ IcmpType = CID_ICMP_ECHO)
    => \A y \in IcmpCodes :
          cid = communityid_calc(be, FALSE,
                    [args EXCEPT !.saddr = args.daddr, !.daddr = args.saddr,
                                 !.sport = <<g_htons(be, CID_ICMP_ECHO_REPLY)>>,
                                 !.dport = <<g_htons(be, y)>>], NULL).cid

\* An echo request between two different addresses with a code other than 0.
C2_Witness ==
    /\ IcmpCall /\ args.proto = CID_PROTO_ICMP /\ IcmpType = CID_ICMP_ECHO
    /\ args.saddr # args.daddr /\ IcmpCode # 0

\* C3 as stated: the two port fields hashed for an ICMP or ICMPv6 call are
\* the caller's sport and dport, in the given or the swapped position.
C3_CallerPortsHashed ==
    IcmpCall
    => HashedPorts \in {WireBytes(IcmpType) \o WireBytes(IcmpCode),
                        WireBytes(IcmpCode) \o WireBytes(IcmpType)}

\* C3 amended: for a type of the protocol's request/reply table the two port
\* fields hashed are the caller's sport and the counterpart type, in the
\* given or the swapped position, and the caller's dport is not hashed; for
\* any other type they are the caller's sport and dport in the given order.
C3_HashedPorts ==
    IcmpCall
    => IF Paired(args.proto, IcmpType)
       THEN LET r == Counterpart(args.proto, IcmpType)
            IN HashedPorts \in {WireBytes(IcmpType) \o WireBytes(r),
                                WireBytes(r) \o WireBytes(IcmpType)}
       ELSE HashedPorts = WireBytes(IcmpType) \o WireBytes(IcmpCode)

\* An echo request with code 80: the code differs from the counterpart type.
C3_Witness ==
    /\ IcmpCall /\ args.proto = CID_PROTO_ICMP
    /\ IcmpType = CID_ICMP_ECHO /\ IcmpCode = 80

\* C8: an ICMP or ICMPv6 call whose type is not in the protocol's table is
\* hashed as given, addresses and ports in the caller's order, and for
\* different addresses the two orientations get different identifiers.
C8_OneWayIcmp ==
    (IcmpCall /\ ~Paired(args.proto, IcmpType))
    => /\ md = WireBytes(args.cfg[1].cfg_seed) \o args.saddr \o args.daddr
               \o <<args.proto, 0>> \o WireBytes(IcmpType) \o WireBytes(IcmpCode)
       /\ args.saddr # args.daddr
          => cid # communityid_calc(be, FALSE,
                        [args EXCEPT !.saddr = args.daddr, !.daddr = args.saddr],
                        NULL).cid

\* A type-3 ICMP call from the larger to the smaller address.
C8_Witness ==
    /\ IcmpCall /\ args.proto = CID_PROTO_ICMP /\ IcmpType = 3
    /\ LexLess(args.daddr, args.saddr)

\* The other of the two protocols, and the call made from the other end
\* with type r and code c.
OtherProto == IF args.proto = CID_PROTO_ICMP THEN CID_PROTO_ICMPV6 ELSE CID_PROTO_ICMP
ReverseWith(r, c) ==
    [args EXCEPT !.saddr = args.daddr, !.daddr = args.saddr,
                 !.sport = <<g_htons(be, r)>>, !.dport = <<g_htons(be, c)>>]

\* C11: for every request/reply pair of the protocol's table, a message of
\* one type from A to B and a message of the paired type from B to A get
\* the same identifier whatever the two code values; a type of the other
\* protocol's table is not paired: the flow is one-way, and for different
\* addresses the message from B to A with the other table's paired type
\* gets a different identifier.
C11_RequestReplyPairing ==
    IcmpCall
    => /\ Paired(args.proto, IcmpType)
          => /\ ~is_one_way
             /\ \A c2 \in IcmpCodes :
                   cid = communityid_calc(be, FALSE,
                             ReverseWith(Counterpart(args.proto, IcmpType), c2), NULL).cid
       /\ Paired(OtherProto, IcmpType)
          => /\ ~Paired(args.proto, IcmpType)
             /\ is_one_way
             /\ args.saddr # args.daddr
                => \A c2 \in IcmpCodes :
                      cid # communityid_calc(be, FALSE,
                                ReverseWith(Counterpart(OtherProto, IcmpType), c2), NULL).cid

\* An ICMPv6 home-agent address discovery request between two different
\* addresses, sent from the larger one, with a code other than 0.
C11_Witness ==
    /\ IcmpCall /\ args.proto = CID_PROTO_ICMPV6
    /\ IcmpType = CID_ICMPV6_HAAD_REQUEST /\ IcmpCode # 0
    /\ LexLess(args.daddr, args.saddr)

\* An ICMP call carrying a type of the ICMPv6 table.
C11_WitnessOtherTable ==
    /\ IcmpCall /\ args.proto = CID_PROTO_ICMP
    /\ IcmpType = CID_ICMPV6_ECHO_REQUEST /\ args.saddr # args.daddr

====
